---- MODULE Spec2Model ----
(***************************************************************************)
(* The request/response layer of the DynamoDB client: the transport        *)
(* executor with its throttling-retry tier (dynamodb.go), the PutItem      *)
(* retry loop, the response parsers and the attribute decoder (item.go),   *)
(* and RawQueryTable (query.go).                                           *)
(*                                                                         *)
(* A string is a sequence of atoms; the atom "#" is the character '#',     *)
(* every other atom is a run of characters without '#'.  A JSON value is   *)
(* a record tagged by its kind k.  The remote service and the HTTP         *)
(* transport are the environment: every transport call is answered by any  *)
(* response of Responses(op).                                              *)
(***************************************************************************)
EXTENDS Integers, Sequences, FiniteSets, TLC

VARIABLES
    pc,             \* "idle" | "request" | "throttled" | "backoff" | "done"
    op,             \* the Table-level operation in progress
    isRetry,        \* the caller's isRetry argument
    nAttributes,    \* len(attributes) of a PutItem / UpdateItem call
    target,         \* X-Amz-Target of the Send in progress
    query,          \* the serialized request body of the Send in progress
    hreq,           \* the HTTP request in flight (or NoRequest)
    retryCount,     \* rawQueryServer's retryCount parameter
    currentRetry,   \* putItem's loop counter
    attempts,       \* Sends started by the operation          (history)
    transportCalls, \* http.DefaultClient.Do calls of the operation (history)
    sendCalls,      \* Do calls of the Send in progress        (history)
    outcomes,       \* class of every finished Send of the operation (history)
    putSleeps,      \* milliseconds slept by putItem's loop    (history)
    throttleSleeps, \* seconds slept by the Send in progress   (history)
    lastResp,       \* the response to the last transport call, if it came (history)
    sendErr,        \* the error the Send returned (NoErr while it runs)
    sendBody,       \* the body the Send returned (NoBody while it runs)
    result          \* what the operation returned to its caller

vars == <<pc, op, isRetry, nAttributes, target, query, hreq, retryCount, currentRetry,
          attempts, transportCalls, sendCalls, outcomes, putSleeps,
          throttleSleeps, lastResp, sendErr, sendBody, result>>

(***************************************************************************)
(* Bounds of the model.                                                    *)
(***************************************************************************)
\* throttled responses the service gives to one Send
MaxThrottle == 2
\* atoms in a __type string
MaxTypeLen == 3
\* keys in one wire attribute object
MaxTags == 2

(***************************************************************************)
(* Program constants.                                                      *)
(***************************************************************************)
maxNumberOfRetry == 4

ProvisionedThroughputExceeded == <<"ProvisionedThroughputExceededException">>

ThrottlingException == <<"ThrottlingException">>

FailedToParse == <<"Failed to parse body as JSON">>

TYPE_STRING == "S"

TYPE_NUMBER == "N"

TYPE_BINARY == "B"

TYPE_STRING_SET == "SS"

TYPE_NUMBER_SET == "NS"

TYPE_BINARY_SET == "BS"

(***************************************************************************)
(* Strings.                                                                *)
(***************************************************************************)
Alphabet == {"#", "ProvisionedThroughputExceededException",
             "ThrottlingException", "com.amazon.coral"}

Strings(n) == UNION {[1..k -> Alphabet] : k \in 0..n}

\* strings.Index: the 0-based position of the first c in s, -1 when none
Index(s, c) ==
    IF \E i \in 1..Len(s) : s[i] = c
    THEN (CHOOSE i \in 1..Len(s) : s[i] = c /\ \A j \in 1..(i-1) : s[j] # c) - 1
    ELSE -1

\* s[from:] with a 0-based from
SliceFrom(s, from) == SubSeq(s, from + 1, Len(s))

(***************************************************************************)
(* JSON values.                                                            *)
(***************************************************************************)
Absent == [k |-> "absent"]

JNull == [k |-> "null"]

JNum(n) == [k |-> "number", n |-> n]

JStr(s) == [k |-> "string", s |-> s]

JArr(l) == [k |-> "array", l |-> l]

JObj(m) == [k |-> "object", m |-> m]

\* (*Json).MustString(): the string, "" for anything else
MustString(v) == IF v.k = "string" THEN v.s ELSE <<>>

(***************************************************************************)
(* Go errors.                                                              *)
(***************************************************************************)
Err(kind, status, code, message) ==
    [kind |-> kind, StatusCode |-> status, Code |-> code, Message |-> message]

NoErr == Err("nil", 0, <<>>, <<>>)

\* errors.New / decoder / transport errors: not a *Error
PlainErr(kind) == Err(kind, 0, <<>>, <<>>)

ErrNotFound == PlainErr("ErrNotFound")

(***************************************************************************)
(* Response bodies.  A body is a JSON document (or not JSON at all) given  *)
(* by the top-level fields the library reads; a field it does not hold is  *)
(* Absent.  A JSON document whose top level is not an object reads like    *)
(* EmptyDoc through Get and CheckGet.                                      *)
(***************************************************************************)
EmptyDoc ==
    [valid |-> TRUE, message |-> Absent, type |-> Absent, Item |-> Absent,
     UnprocessedItems |-> Absent, Count |-> Absent, Items |-> Absent,
     LastEvaluatedKey |-> Absent, Responses |-> Absent]

NotJson == [EmptyDoc EXCEPT !.valid = FALSE]

\* the nil []byte a failed Send returns
NoBody == NotJson

\* error bodies: {"__type": ..., "message": ...}
TypeValues == {Absent, JNum(0)} \cup {JStr(s) : s \in Strings(MaxTypeLen)}

MessageValues == {Absent, JStr(<<"m">>)}

ErrorBodies ==
    {[EmptyDoc EXCEPT !.type = t, !.message = m] :
        t \in TypeValues, m \in MessageValues}

\* wire attributes: {"S": ...}, {"N": ...}, ...; "BOOL" is a tag the decoder does not know
KnownTags == <<TYPE_STRING, TYPE_NUMBER, TYPE_BINARY,
               TYPE_STRING_SET, TYPE_NUMBER_SET, TYPE_BINARY_SET>>

WireTags == {KnownTags[i] : i \in 1..Len(KnownTags)} \cup {"BOOL"}

Payloads == {JStr(<<"a">>), JArr(<<JStr(<<"a">>), JNum(7)>>), JNum(7)}

AttrObjects ==
    {m \in [WireTags -> Payloads \cup {Absent}] :
        Cardinality({t \in WireTags : m[t] # Absent}) <= MaxTags}

Only(tag, payload) == [t \in WireTags |-> IF t = tag THEN payload ELSE Absent]

WireValues == {JNull, JStr(<<"a">>)} \cup {JObj(m) : m \in AttrObjects}

SampleValues == {Absent, JObj(Only(TYPE_STRING, JStr(<<"a">>))),
                 JObj(Only("BOOL", JStr(<<"a">>)))}

FieldNames == {"f", "g"}

\* wire items: field f takes every wire value, field g a well-formed one,
\* one with an unknown tag, or is missing
WireItems ==
    {[f |-> x, g |-> y] : x \in WireValues \cup {Absent}, y \in SampleValues}

SampleItem == [f |-> JObj(Only(TYPE_NUMBER, JStr(<<"a">>))), g |-> Absent]

GetBodies ==
    {[EmptyDoc EXCEPT !.Item = i] :
        i \in {Absent, JNull, JStr(<<"a">>)} \cup {JObj(it) : it \in WireItems}}

PutBodies == {EmptyDoc}

\* UnprocessedItems: a mapping is the set of its (table, requests) entries
UnprocessedValues ==
    {Absent, JNull, JArr(<<>>), JObj({}),
     JObj({[table |-> "T", requests |-> <<"put1">>]}),
     JObj({[table |-> "T", requests |-> <<"put1">>],
           [table |-> "U", requests |-> <<"delete1">>]})}

BatchWriteBodies == {[EmptyDoc EXCEPT !.UnprocessedItems = u] : u \in UnprocessedValues}

ItemLists ==
    {JArr(l) : l \in UNION {[1..n -> {JObj(SampleItem), JNull}] : n \in 0..2}}

ResponsesValues ==
    {Absent, JArr(<<>>), JObj({})}
    \cup {JObj({[table |-> "T", entries |-> e]}) : e \in ItemLists \cup {JNull}}

BatchGetBodies == {[EmptyDoc EXCEPT !.Responses = r] : r \in ResponsesValues}

CountValues == {Absent, JStr(<<"a">>), JNum(0), JNum(1), JNum(2)}

CountBodies == {[EmptyDoc EXCEPT !.Count = c] : c \in CountValues}

QueryBodies ==
    {[EmptyDoc EXCEPT !.Count = c, !.Items = i, !.LastEvaluatedKey = k] :
        c \in CountValues, i \in ItemLists \cup {Absent},
        k \in {Absent, JNull, JObj(SampleItem)}}

Ops == {"GetItem", "PutItem", "DeleteItem", "UpdateItem", "BatchWriteItem",
        "BatchGetItem", "CountQuery", "RawQueryTable"}

OpBodies(o) ==
    CASE o = "GetItem" -> GetBodies
      [] o = "BatchWriteItem" -> BatchWriteBodies
      [] o = "BatchGetItem" -> BatchGetBodies
      [] o = "CountQuery" -> CountBodies
      [] o = "RawQueryTable" -> QueryBodies
      [] OTHER -> PutBodies

StatusCodes == {200, 400, 500}

\* what http.DefaultClient.Do and ioutil.ReadAll can give back: a 200 with a
\* body of the operation, another status with an error body, or a failure
Responses(o) ==
    {[kind |-> "http", StatusCode |-> 200, body |-> b] : b \in {NotJson} \cup OpBodies(o)}
    \cup {[kind |-> "http", StatusCode |-> s, body |-> b] :
            s \in StatusCodes \ {200}, b \in {NotJson} \cup ErrorBodies}
    \cup {[kind |-> k, StatusCode |-> 0, body |-> NotJson] : k \in {"doErr", "readErr"}}

NoResponse == [kind |-> "none", StatusCode |-> 0, body |-> NotJson]

(***************************************************************************)
(* dynamodb.go: buildError                                                 *)
(***************************************************************************)
buildError(StatusCode, jsonBody) ==
    IF ~jsonBody.valid
    THEN Err("Error", StatusCode, FailedToParse, <<>>)
    ELSE LET codeStr == MustString(jsonBody.type)
             hashIndex == Index(codeStr, "#")
         IN  Err("Error", StatusCode,
                 IF hashIndex > 0 THEN SliceFrom(codeStr, hashIndex + 1) ELSE codeStr,
                 MustString(jsonBody.message))

(***************************************************************************)
(* item.go: parseAttributes                                                *)
(***************************************************************************)
Attribute(Type, Name, Value, SetValues) ==
    [Type |-> Type, Name |-> Name, Value |-> Value, SetValues |-> SetValues]

\* arry: a string member is copied, any other member leaves ""
SetMembers(vals) ==
    [i \in 1..Len(vals) |-> IF vals[i].k = "string" THEN vals[i].s ELSE <<>>]

\* a decoder that probes the Number tag before the String tag
decodeAttributeNumberFirst(key, value) ==
    IF value.k = "object"
    THEN LET v == value.m IN
         IF v[TYPE_NUMBER].k = "string"
         THEN Attribute(TYPE_NUMBER, key, v[TYPE_NUMBER].s, <<>>)
         ELSE IF v[TYPE_STRING].k = "string"
         THEN Attribute(TYPE_STRING, key, v[TYPE_STRING].s, <<>>)
         ELSE IF v[TYPE_BINARY].k = "string"
         THEN Attribute(TYPE_BINARY, key, v[TYPE_BINARY].s, <<>>)
         ELSE IF v[TYPE_STRING_SET].k = "array"
         THEN Attribute(TYPE_STRING_SET, key, <<>>, SetMembers(v[TYPE_STRING_SET].l))
         ELSE IF v[TYPE_NUMBER_SET].k = "array"
         THEN Attribute(TYPE_NUMBER_SET, key, <<>>, SetMembers(v[TYPE_NUMBER_SET].l))
         ELSE IF v[TYPE_BINARY_SET].k = "array"
         THEN Attribute(TYPE_BINARY_SET, key, <<>>, SetMembers(v[TYPE_BINARY_SET].l))
         ELSE Absent
    ELSE Absent

\* one iteration of parseAttributes' loop: the Attribute stored under key,
\* or Absent when nothing is stored
decodeAttribute(key, value) ==
    IF value.k = "object"
    THEN LET v == value.m IN
         IF v[TYPE_STRING].k = "string"
         THEN Attribute(TYPE_STRING, key, v[TYPE_STRING].s, <<>>)
         ELSE IF v[TYPE_NUMBER].k = "string"
         THEN Attribute(TYPE_NUMBER, key, v[TYPE_NUMBER].s, <<>>)
         ELSE IF v[TYPE_BINARY].k = "string"
         THEN Attribute(TYPE_BINARY, key, v[TYPE_BINARY].s, <<>>)
         ELSE IF v[TYPE_STRING_SET].k = "array"
         THEN Attribute(TYPE_STRING_SET, key, <<>>, SetMembers(v[TYPE_STRING_SET].l))
         ELSE IF v[TYPE_NUMBER_SET].k = "array"
         THEN Attribute(TYPE_NUMBER_SET, key, <<>>, SetMembers(v[TYPE_NUMBER_SET].l))
         ELSE IF v[TYPE_BINARY_SET].k = "array"
         THEN Attribute(TYPE_BINARY_SET, key, <<>>, SetMembers(v[TYPE_BINARY_SET].l))
         ELSE Absent
    ELSE Absent

parseAttributes(s) == [key \in DOMAIN s |-> decodeAttribute(key, s[key])]

(***************************************************************************)
(* What the operations return: (value, error).                             *)
(***************************************************************************)
Ret(val, err) == [val |-> val, err |-> err]

Nil == [k |-> "nil"]

Bool(b) == [k |-> "bool", b |-> b]

NoResult == Ret(Nil, NoErr)

\* item.go: putItem after its loop
putItemReturn(jsonResponse, err) ==
    IF err # NoErr THEN Ret(Bool(FALSE), err)
    ELSE IF ~jsonResponse.valid THEN Ret(Bool(FALSE), PlainErr("json"))
    ELSE Ret(Bool(TRUE), NoErr)

\* item.go: deleteItem after queryServer
deleteItemReturn(jsonResponse, err) ==
    IF err # NoErr THEN Ret(Bool(FALSE), err)
    ELSE IF ~jsonResponse.valid THEN Ret(Bool(FALSE), PlainErr("json"))
    ELSE Ret(Bool(TRUE), NoErr)

\* item.go: modifyAttributes after queryServer
modifyAttributesReturn(jsonResponse, err) ==
    IF err # NoErr THEN Ret(Bool(FALSE), err)
    ELSE IF ~jsonResponse.valid THEN Ret(Bool(FALSE), PlainErr("json"))
    ELSE Ret(Bool(TRUE), NoErr)

\* a getItem that takes an Item without attributes for a missing item
getItemReturnEmptyIsMissing(jsonResponse, err) ==
    IF err # NoErr THEN Ret(Nil, err)
    ELSE IF ~jsonResponse.valid THEN Ret(Nil, PlainErr("json"))
    ELSE IF jsonResponse.Item = Absent THEN Ret(Nil, ErrNotFound)
    ELSE IF jsonResponse.Item.k # "object" THEN Ret(Nil, PlainErr("Unexpected response"))
    ELSE IF \A f \in DOMAIN jsonResponse.Item.m : jsonResponse.Item.m[f] = Absent
    THEN Ret(Nil, ErrNotFound)
    ELSE Ret([k |-> "item", m |-> parseAttributes(jsonResponse.Item.m)], NoErr)

\* item.go: getItem after queryServer
getItemReturn(jsonResponse, err) ==
    IF err # NoErr THEN Ret(Nil, err)
    ELSE IF ~jsonResponse.valid THEN Ret(Nil, PlainErr("json"))
    ELSE IF jsonResponse.Item = Absent THEN Ret(Nil, ErrNotFound)
    ELSE IF jsonResponse.Item.k # "object" THEN Ret(Nil, PlainErr("Unexpected response"))
    ELSE Ret([k |-> "item", m |-> parseAttributes(jsonResponse.Item.m)], NoErr)

\* an Execute that reports unprocessed items without the error
batchWriteReturnNoError(jsonResponse, err) ==
    IF err # NoErr THEN Ret(Nil, err)
    ELSE IF ~jsonResponse.valid THEN Ret(Nil, PlainErr("json"))
    ELSE LET unprocessed == jsonResponse.UnprocessedItems IN
         IF unprocessed.k # "object" THEN Ret(Nil, PlainErr("Unexpected response"))
         ELSE IF Cardinality(unprocessed.m) = 0 THEN Ret(Nil, NoErr)
         ELSE Ret([k |-> "map", m |-> unprocessed.m], NoErr)

\* item.go: BatchWriteItem.Execute after queryServer
batchWriteReturn(jsonResponse, err) ==
    IF err # NoErr THEN Ret(Nil, err)
    ELSE IF ~jsonResponse.valid THEN Ret(Nil, PlainErr("json"))
    ELSE LET unprocessed == jsonResponse.UnprocessedItems IN
         IF unprocessed.k # "object" THEN Ret(Nil, PlainErr("Unexpected response"))
         ELSE IF Cardinality(unprocessed.m) = 0 THEN Ret(Nil, NoErr)
         ELSE Ret([k |-> "map", m |-> unprocessed.m],
                  PlainErr("One or more unprocessed items."))

\* item.go: BatchGetItem.Execute after queryServer
batchGetReturn(jsonResponse, err) ==
    IF err # NoErr THEN Ret(Nil, err)
    ELSE IF ~jsonResponse.valid THEN Ret(Nil, PlainErr("json"))
    ELSE LET tables == jsonResponse.Responses IN
         IF tables.k # "object" THEN Ret(Nil, PlainErr("Unexpected response"))
         ELSE IF \E e \in tables.m :
                    \/ e.entries.k # "array"
                    \/ \E i \in 1..Len(e.entries.l) : e.entries.l[i].k # "object"
         THEN Ret(Nil, PlainErr("Unexpected response"))
         ELSE Ret([k |-> "tables",
                   m |-> {[table |-> e.table,
                           items |-> [i \in 1..Len(e.entries.l) |->
                                         parseAttributes(e.entries.l[i].m)]] :
                          e \in tables.m}],
                  NoErr)

\* query.go: CountQuery after queryServer
countQueryReturn(jsonResponse, err) ==
    IF err # NoErr THEN Ret([k |-> "int", n |-> 0], err)
    ELSE IF ~jsonResponse.valid THEN Ret([k |-> "int", n |-> 0], PlainErr("json"))
    ELSE IF jsonResponse.Count.k # "number"
    THEN Ret([k |-> "int", n |-> 0], PlainErr("type assertion"))
    ELSE Ret([k |-> "int", n |-> jsonResponse.Count.n], NoErr)

\* the continuation Key decoded from a LastEvaluatedKey mapping
parseKey(lastKeyMap) == [k |-> "key", m |-> parseAttributes(lastKeyMap)]

\* (*Json).GetIndex(i).Map() of the Items field, i 0-based
ItemAt(items, i) ==
    IF items.k = "array" /\ i < Len(items.l) THEN items.l[i + 1] ELSE JNull

\* query.go: RawQueryTable after rawQueryServer; tgt is its target argument
rawQueryTableReturn(tgt, jsonResponse, err) ==
    IF err # NoErr THEN Ret(Nil, err)
    ELSE IF ~jsonResponse.valid THEN Ret(Nil, PlainErr("json"))
    ELSE IF jsonResponse.Count.k # "number"
    THEN IF tgt = "UpdateItem"
         THEN Ret([k |-> "query", items |-> <<>>, lastEvaluatedKey |-> Nil], NoErr)
         ELSE Ret(Nil, PlainErr("Unexpected response"))
    ELSE LET itemCount == jsonResponse.Count.n IN
         IF \E i \in 0..(itemCount - 1) : ItemAt(jsonResponse.Items, i).k # "object"
         THEN Ret(Nil, PlainErr("Unexpected response"))
         ELSE Ret([k |-> "query",
                   items |-> [i \in 1..itemCount |->
                                parseAttributes(ItemAt(jsonResponse.Items, i - 1).m)],
                   lastEvaluatedKey |->
                       IF jsonResponse.LastEvaluatedKey.k = "object"
                       THEN parseKey(jsonResponse.LastEvaluatedKey.m)
                       ELSE Nil],
                  NoErr)

(***************************************************************************)
(* The calls.                                                              *)
(***************************************************************************)
\* dynamodb.go: target
targetOf(name) == <<"DynamoDB_20120810.", name>>

\* Query.String(): the serialized request of operation o
QueryString(o) == <<"body of ", o>>

NoRequest == [target |-> <<>>, body |-> <<>>]

\* dynamodb.go: queryServer hands rawQueryServer the retryCount 0 whatever
\* the caller's flag is
queryServerRetryCount(flag) == 0

\* query.go: RawQueryTable turns its flag into the retryCount
RawQueryTableRetryCount(flag) == IF ~flag THEN -1 ELSE 0

\* a rawQueryServer that gives up after one resend
ThrottleRetryCapped(Code, rc) ==
    Code = ProvisionedThroughputExceeded /\ rc >= 0 /\ rc < 1

\* dynamodb.go: rawQueryServer resends on this code when retryCount allows
ThrottleRetry(Code, rc) == Code = ProvisionedThroughputExceeded /\ rc >= 0

\* a rawQueryServer that sleeps one second before every resend
ThrottleDelayConstant(rc) == 1

\* dynamodb.go: seconds slept before the resend, rc already incremented
ThrottleDelay(rc) == rc

\* a putItem whose budget check is off by one
RetryBudgetOffByOne(cr) == cr > maxNumberOfRetry

\* item.go: putItem leaves its loop once the budget is spent
RetryBudgetExhausted(cr) == cr >= maxNumberOfRetry

\* a putItem that retries on every error
ShouldRetryAnyError(err) == err # NoErr

\* item.go: putItem's retry decision on the error of a Send
ShouldRetry(err) ==
    /\ err # NoErr
    /\ err.kind = "Error"
    /\ \/ err.StatusCode = 500
       \/ err.Code = ThrottlingException
       \/ err.Code = <<"ProvisionedThroughputExceededException">>

\* a putItem whose delay grows linearly
BackoffDelayLinear(cr) == (cr + 1) * 50

\* item.go: milliseconds putItem waits before the next Send
BackoffDelay(cr) == (2 ^ cr) * 50

\* history only: the class the error taxonomy gives to what a Send returned
\* (retryable: a service Error with status 500 or one of the two throttling
\* codes); the program never reads it
OutcomeClass(err) ==
    IF err = NoErr THEN "ok"
    ELSE IF err.kind = "Error" /\ (\/ err.StatusCode = 500
                                   \/ err.Code = ThrottlingException
                                   \/ err.Code = ProvisionedThroughputExceeded)
    THEN "retryable"
    ELSE "nonretryable"

\* what operation o returns once its only Send has returned
OpReturn(o, tgt, jsonResponse, err) ==
    CASE o = "GetItem" -> getItemReturn(jsonResponse, err)
      [] o = "DeleteItem" -> deleteItemReturn(jsonResponse, err)
      [] o = "UpdateItem" -> modifyAttributesReturn(jsonResponse, err)
      [] o = "BatchWriteItem" -> batchWriteReturn(jsonResponse, err)
      [] o = "BatchGetItem" -> batchGetReturn(jsonResponse, err)
      [] o = "CountQuery" -> countQueryReturn(jsonResponse, err)
      [] o = "RawQueryTable" -> rawQueryTableReturn(tgt, jsonResponse, err)

Init ==
    /\ pc = "idle"
    /\ op = "none"
    /\ isRetry = FALSE
    /\ nAttributes = 0
    /\ target = <<>>
    /\ query = <<>>
    /\ hreq = NoRequest
    /\ retryCount = 0
    /\ currentRetry = 0
    /\ attempts = 0
    /\ transportCalls = 0
    /\ sendCalls = 0
    /\ outcomes = <<>>
    /\ putSleeps = <<>>
    /\ throttleSleeps = <<>>
    /\ lastResp = NoResponse
    /\ sendErr = NoErr
    /\ sendBody = NoBody
    /\ result = NoResult

\* rawQueryServer is entered: the request is built, signed and sent
StartSend(t, q, rc) ==
    /\ target' = t
    /\ query' = q
    /\ retryCount' = rc
    /\ hreq' = [target |-> t, body |-> q]
    /\ pc' = "request"
    /\ attempts' = attempts + 1
    /\ transportCalls' = transportCalls + 1
    /\ sendCalls' = 1
    /\ throttleSleeps' = <<>>
    /\ lastResp' = NoResponse
    /\ sendErr' = NoErr
    /\ sendBody' = NoBody

\* an operation that goes through queryServer is called
CallQueryServer(o, flag, n) ==
    /\ pc = "idle"
    /\ op' = o
    /\ isRetry' = flag
    /\ nAttributes' = n
    /\ StartSend(targetOf(o), QueryString(o), queryServerRetryCount(flag))
    /\ UNCHANGED <<currentRetry, outcomes, putSleeps, result>>

\* putItem and modifyAttributes refuse an empty attribute list
RefuseEmpty(o, flag) ==
    /\ pc = "idle"
    /\ op' = o
    /\ isRetry' = flag
    /\ nAttributes' = 0
    /\ pc' = "done"
    /\ result' = Ret(Bool(FALSE), PlainErr("At least one attribute is required."))
    /\ UNCHANGED <<target, query, hreq, retryCount, currentRetry, attempts,
                   transportCalls, sendCalls, outcomes, putSleeps,
                   throttleSleeps, lastResp, sendErr, sendBody>>

GetItem == \E flag \in BOOLEAN : CallQueryServer("GetItem", flag, 0)

PutItem ==
    \E flag \in BOOLEAN, n \in 0..1 :
        IF n = 0 THEN RefuseEmpty("PutItem", flag)
        ELSE CallQueryServer("PutItem", flag, n)

DeleteItem == \E flag \in BOOLEAN : CallQueryServer("DeleteItem", flag, 0)

ModifyAttributes ==
    \E flag \in BOOLEAN, n \in 0..1 :
        IF n = 0 THEN RefuseEmpty("UpdateItem", flag)
        ELSE CallQueryServer("UpdateItem", flag, n)

BatchWriteItemExecute == \E flag \in BOOLEAN : CallQueryServer("BatchWriteItem", flag, 0)

BatchGetItemExecute == \E flag \in BOOLEAN : CallQueryServer("BatchGetItem", flag, 0)

CountQuery ==
    \E flag \in BOOLEAN :
        /\ pc = "idle"
        /\ op' = "CountQuery"
        /\ isRetry' = flag
        /\ nAttributes' = 0
        /\ StartSend(<<"DynamoDB_20120810.", "Query">>, QueryString("CountQuery"),
                     queryServerRetryCount(flag))
        /\ UNCHANGED <<currentRetry, outcomes, putSleeps, result>>

RawQueryTable ==
    \E flag \in BOOLEAN, tgt \in {"Query", "UpdateItem"} :
        /\ pc = "idle"
        /\ op' = "RawQueryTable"
        /\ isRetry' = flag
        /\ nAttributes' = 0
        /\ StartSend(<<"DynamoDB_20120810.", tgt>>, QueryString("RawQueryTable"),
                     RawQueryTableRetryCount(flag))
        /\ UNCHANGED <<currentRetry, outcomes, putSleeps, result>>

\* rawQueryServer returns (body, err) to its caller, which runs on: putItem
\* decides on another round, every other operation decodes and returns
SendReturns(body, err) ==
    /\ sendBody' = body
    /\ sendErr' = err
    /\ outcomes' = Append(outcomes, OutcomeClass(err))
    /\ hreq' = NoRequest
    /\ IF op = "PutItem"
       THEN IF ~RetryBudgetExhausted(currentRetry) /\ ShouldRetry(err)
            THEN /\ pc' = "backoff"
                 /\ putSleeps' = Append(putSleeps, BackoffDelay(currentRetry))
                 /\ result' = result
            ELSE /\ pc' = "done"
                 /\ putSleeps' = putSleeps
                 /\ result' = putItemReturn(body, err)
       ELSE /\ pc' = "done"
            /\ putSleeps' = putSleeps
            /\ result' = OpReturn(op, target[2], body, err)
    /\ UNCHANGED <<op, isRetry, nAttributes, target, query, retryCount,
                   currentRetry, attempts, transportCalls, sendCalls,
                   throttleSleeps>>

\* http.DefaultClient.Do or ioutil.ReadAll fails
TransportFails ==
    /\ pc = "request"
    /\ \E r \in Responses(op) :
        /\ r.kind # "http"
        /\ lastResp' = r
        /\ SendReturns(NoBody, PlainErr(r.kind))

\* the response is a 200
RespondOK ==
    /\ pc = "request"
    /\ \E r \in Responses(op) :
        /\ r.kind = "http"
        /\ r.StatusCode = 200
        /\ lastResp' = r
        /\ SendReturns(r.body, NoErr)

\* a non-200 response that rawQueryServer answers with a sleep and a resend
RespondThrottled ==
    /\ pc = "request"
    /\ retryCount < MaxThrottle
    /\ \E r \in Responses(op) :
        /\ r.kind = "http"
        /\ r.StatusCode # 200
        /\ ThrottleRetry(buildError(r.StatusCode, r.body).Code, retryCount)
        /\ lastResp' = r
    /\ retryCount' = retryCount + 1
    /\ throttleSleeps' = Append(throttleSleeps, ThrottleDelay(retryCount + 1))
    /\ pc' = "throttled"
    /\ hreq' = NoRequest
    /\ UNCHANGED <<op, isRetry, nAttributes, target, query, currentRetry,
                   attempts, transportCalls, sendCalls, outcomes, putSleeps,
                   sendErr, sendBody, result>>

\* any other non-200 response: rawQueryServer returns the Error
RespondError ==
    /\ pc = "request"
    /\ \E r \in Responses(op) :
        /\ r.kind = "http"
        /\ r.StatusCode # 200
        /\ ~ThrottleRetry(buildError(r.StatusCode, r.body).Code, retryCount)
        /\ lastResp' = r
        /\ SendReturns(NoBody, buildError(r.StatusCode, r.body))

\* time.Sleep is over: rawQueryServer calls itself with the same target and query
ThrottleWake ==
    /\ pc = "throttled"
    /\ pc' = "request"
    /\ hreq' = [target |-> target, body |-> query]
    /\ transportCalls' = transportCalls + 1
    /\ sendCalls' = sendCalls + 1
    /\ lastResp' = NoResponse
    /\ UNCHANGED <<op, isRetry, nAttributes, target, query, retryCount,
                   currentRetry, attempts, outcomes, putSleeps, throttleSleeps,
                   sendErr, sendBody, result>>

\* time.After fires: putItem counts the retry and sends again
BackoffWake ==
    /\ pc = "backoff"
    /\ currentRetry' = currentRetry + 1
    /\ StartSend(targetOf("PutItem"), query, queryServerRetryCount(isRetry))
    /\ UNCHANGED <<op, isRetry, nAttributes, outcomes, putSleeps, result>>

\* the caller has the result; the next call starts from scratch
Return ==
    /\ pc = "done"
    /\ pc' = "idle"
    /\ op' = "none"
    /\ isRetry' = FALSE
    /\ nAttributes' = 0
    /\ target' = <<>>
    /\ query' = <<>>
    /\ hreq' = NoRequest
    /\ retryCount' = 0
    /\ currentRetry' = 0
    /\ attempts' = 0
    /\ transportCalls' = 0
    /\ sendCalls' = 0
    /\ outcomes' = <<>>
    /\ putSleeps' = <<>>
    /\ throttleSleeps' = <<>>
    /\ lastResp' = NoResponse
    /\ sendErr' = NoErr
    /\ sendBody' = NoBody
    /\ result' = NoResult

Next ==
    \/ GetItem
    \/ PutItem
    \/ DeleteItem
    \/ ModifyAttributes
    \/ BatchWriteItemExecute
    \/ BatchGetItemExecute
    \/ CountQuery
    \/ RawQueryTable
    \/ TransportFails
    \/ RespondOK
    \/ RespondThrottled
    \/ RespondError
    \/ ThrottleWake
    \/ BackoffWake
    \/ Return

Spec == Init /\ [][Next]_vars

(***************************************************************************)
(* The claims.                                                             *)
(***************************************************************************)
\* the Send in progress has returned to its caller
SendReturned == pc \in {"backoff", "done"} /\ Len(outcomes) = attempts /\ attempts > 0

InPut == op = "PutItem" /\ nAttributes > 0

Got200 == lastResp.kind = "http" /\ lastResp.StatusCode = 200

GotError == lastResp.kind = "http" /\ lastResp.StatusCode # 200

\* C1 (as amended): a PutItem with attributes makes one Send after another,
\* at most 5; every Send before the last returned a retryable error; the last
\* one succeeded, failed with a non-retryable error or was the 5th; the call
\* returns (false, the last Send's error), or, after a successful Send,
\* (true, nil) when the body is JSON and (false, the JSON error) when not.
C1_PutRetryBound ==
    InPut =>
        /\ attempts <= maxNumberOfRetry + 1
        /\ attempts = Len(outcomes) + (IF pc \in {"request", "throttled"} THEN 1 ELSE 0)
        /\ \A i \in 1..(Len(outcomes) - 1) : outcomes[i] = "retryable"
        /\ pc = "backoff" =>
              /\ outcomes[Len(outcomes)] = "retryable"
              /\ attempts <= maxNumberOfRetry
        /\ pc = "done" =>
              /\ attempts >= 1
              /\ outcomes[attempts] # "retryable" \/ attempts = 5
              /\ outcomes[attempts] = OutcomeClass(sendErr)
              /\ GotError => /\ sendErr.kind = "Error"
                             /\ sendErr.StatusCode = lastResp.StatusCode
              /\ Got200 => sendErr = NoErr /\ sendBody = lastResp.body
              /\ sendErr # NoErr => result = Ret(Bool(FALSE), sendErr)
              /\ sendErr = NoErr =>
                    result = IF sendBody.valid THEN Ret(Bool(TRUE), NoErr)
                             ELSE Ret(Bool(FALSE), PlainErr("json"))

\* C1 witness: five 500 responses in a row, five Sends, the fifth error returned
C1_Witness ==
    /\ InPut
    /\ pc = "done"
    /\ attempts = 5
    /\ outcomes = <<"retryable", "retryable", "retryable", "retryable", "retryable">>
    /\ lastResp.StatusCode = 500
    /\ result.err.StatusCode = 500

\* C1 as stated: a PutItem whose last Send succeeded returns success
C1_Original ==
    (InPut /\ pc = "done" /\ outcomes[Len(outcomes)] = "ok") =>
        result = Ret(Bool(TRUE), NoErr)

\* C2: the sleep before retry k of putItem's loop (k = currentRetry, from 0)
\* lasts 2^k x 50 ms; there is one sleep per retry and no other in the loop,
\* and a PutItem that spends its budget has slept 50, 100, 200, 400 ms.
C2_BackoffSchedule ==
    /\ \A k \in 1..Len(putSleeps) : putSleeps[k] = (2 ^ (k - 1)) * 50
    /\ Len(putSleeps) = currentRetry + (IF pc = "backoff" THEN 1 ELSE 0)
    /\ InPut /\ pc # "backoff" => Len(putSleeps) = attempts - 1
    /\ ~InPut => putSleeps = <<>>
    /\ (InPut /\ pc = "done" /\ attempts = 5) => putSleeps = <<50, 100, 200, 400>>

\* C2 witness: a PutItem that spent its budget
C2_Witness ==
    InPut /\ pc = "done" /\ attempts = 5 /\ putSleeps = <<50, 100, 200, 400>>

\* C3: when the first Send of a PutItem returns a non-retryable error, the
\* PutItem is over after that one Send, has not slept in its loop, and
\* returns (false, that error).
C3_NonRetryablePropagates ==
    (InPut /\ Len(outcomes) >= 1 /\ outcomes[1] = "nonretryable") =>
        /\ pc = "done"
        /\ attempts = 1
        /\ putSleeps = <<>>
        /\ sendErr # NoErr
        /\ result = Ret(Bool(FALSE), sendErr)
        /\ GotError => sendErr = buildError(lastResp.StatusCode, lastResp.body)
        /\ lastResp.kind # "http" => sendErr = PlainErr(lastResp.kind)

\* C3 witness: a validation error (400) answers the first Send
C3_Witness ==
    /\ InPut
    /\ pc = "done"
    /\ outcomes = <<"nonretryable">>
    /\ lastResp.StatusCode = 400
    /\ result.err.kind = "Error"

\* C4: a call made with isRetry = false never sleeps in the throttling tier
\* and never sends a request twice within one Send.
C4_IsRetryGatesThrottling ==
    (op # "none" /\ ~isRetry) =>
        /\ pc # "throttled"
        /\ sendCalls <= 1
        /\ throttleSleeps = <<>>

\* C5: with isRetry = true, the n-th throttled response of a Send is followed
\* by a sleep of n seconds and then one resend of the same target and body;
\* one request at a time; the Send returns on the first response that is a
\* 200 (its body, no error) or an error with another code (that Error), and
\* never gives up on the throttling code.
C5_ThrottleSchedule ==
    (op # "none" /\ isRetry /\ attempts > 0) =>
        /\ retryCount >= 0
        /\ Len(throttleSleeps) = retryCount
        /\ \A n \in 1..Len(throttleSleeps) : throttleSleeps[n] = n
        /\ sendCalls = retryCount + (IF pc = "throttled" THEN 0 ELSE 1)
        /\ pc = "request" => /\ hreq = [target |-> target, body |-> query]
                             /\ lastResp = NoResponse
        /\ pc # "request" => hreq = NoRequest
        /\ pc = "throttled" =>
              /\ GotError
              /\ buildError(lastResp.StatusCode, lastResp.body).Code
                    = ProvisionedThroughputExceeded
        /\ SendReturned =>
              /\ Got200 => sendErr = NoErr /\ sendBody = lastResp.body
              /\ GotError =>
                    /\ sendErr = buildError(lastResp.StatusCode, lastResp.body)
                    /\ sendErr.Code # ProvisionedThroughputExceeded

\* C5 witness: two throttled responses, sleeps of 1 s and 2 s, then a 200
C5_Witness ==
    /\ isRetry
    /\ pc = "done"
    /\ throttleSleeps = <<1, 2>>
    /\ sendCalls = 3
    /\ Got200
    /\ sendErr = NoErr

\* C6: for a 200 response that is JSON, GetItem returns (nil, ErrNotFound)
\* exactly when Item is absent; Item: {} gives an item without attributes and
\* no error; an Item that is no object gives the 'Unexpected response' error.
C6_GetItemNotFound ==
    (op = "GetItem" /\ pc = "done" /\ Got200 /\ lastResp.body.valid) =>
        LET Item == lastResp.body.Item IN
        /\ result = Ret(Nil, ErrNotFound) <=> Item = Absent
        /\ result.err = ErrNotFound <=> Item = Absent
        /\ (Item.k = "object" /\ \A f \in FieldNames : Item.m[f] = Absent) =>
              /\ result.err = NoErr
              /\ result.val.k = "item"
              /\ \A f \in FieldNames : result.val.m[f] = Absent
        /\ (Item # Absent /\ Item.k # "object") =>
              result = Ret(Nil, PlainErr("Unexpected response"))

\* C6 witness: the response {"Item": {}}
C6_Witness ==
    /\ op = "GetItem"
    /\ pc = "done"
    /\ Got200
    /\ lastResp.body.valid
    /\ lastResp.body.Item.k = "object"
    /\ \A f \in FieldNames : lastResp.body.Item.m[f] = Absent
    /\ result.err = NoErr

\* C7 (as amended): for a 200 response, Execute returns (nil, nil) exactly
\* when the body is JSON and UnprocessedItems is an empty mapping; a non-empty
\* mapping comes back as it is with the 'unprocessed items' error; a JSON body
\* without a mapping gives nil and 'Unexpected response'; a body that is not
\* JSON gives nil and the JSON error.  Execute makes one Send only.
C7_BatchWritePartialFailure ==
    (op = "BatchWriteItem" /\ attempts > 0) =>
        /\ attempts = 1
        /\ (pc = "done" /\ Got200) =>
              LET u == lastResp.body.UnprocessedItems
                  json == lastResp.body.valid
              IN
              /\ result = Ret(Nil, NoErr) <=> (json /\ u.k = "object" /\ u.m = {})
              /\ (json /\ u.k = "object" /\ u.m # {}) =>
                    result = Ret([k |-> "map", m |-> u.m],
                                 PlainErr("One or more unprocessed items."))
              /\ (json /\ u.k # "object") =>
                    result = Ret(Nil, PlainErr("Unexpected response"))
              /\ ~json => result = Ret(Nil, PlainErr("json"))

\* C7 witness: one unprocessed item for table "T"
C7_Witness ==
    /\ op = "BatchWriteItem"
    /\ pc = "done"
    /\ Got200
    /\ lastResp.body.UnprocessedItems =
          JObj({[table |-> "T", requests |-> <<"put1">>]})
    /\ result.val = [k |-> "map", m |-> {[table |-> "T", requests |-> <<"put1">>]}]
    /\ result.err # NoErr

\* C7 as stated: a 200 response without an UnprocessedItems mapping gives nil
\* and the 'Unexpected response' error
C7_Original ==
    (op = "BatchWriteItem" /\ pc = "done" /\ Got200
        /\ lastResp.body.UnprocessedItems.k # "object") =>
        result = Ret(Nil, PlainErr("Unexpected response"))

\* the part of s after its last '#', all of s when it has none
SuffixAfterLastHash(s) ==
    IF \E i \in 1..Len(s) : s[i] = "#"
    THEN LET last == CHOOSE i \in 1..Len(s) :
                        s[i] = "#" /\ \A j \in (i + 1)..Len(s) : s[j] # "#"
         IN  SubSeq(s, last + 1, Len(s))
    ELSE s

\* C8: the Code of the Error built from a non-200 JSON body is the part of
\* its __type string after the last '#', all of it when it has no '#'.
C8_CodeIsSuffixAfterLastHash ==
    (SendReturned /\ GotError /\ lastResp.body.valid
        /\ lastResp.body.type.k = "string") =>
        sendErr.Code = SuffixAfterLastHash(lastResp.body.type.s)

\* the payload a known tag needs: a string for S, N, B, a list for SS, NS, BS
TypeCorrect(i, v) ==
    IF i <= 3 THEN v[KnownTags[i]].k = "string" ELSE v[KnownTags[i]].k = "array"

Decodable(w) == w.k = "object" /\ \E i \in 1..6 : TypeCorrect(i, w.m)

FirstCorrect(v) ==
    CHOOSE i \in 1..6 : TypeCorrect(i, v) /\ \A j \in 1..(i - 1) : ~TypeCorrect(j, v)

\* C9: decoding an item never fails; a field is in the result exactly when
\* its wire value is an object with a known tag that has a payload of the
\* right shape, and it is decoded by the first such tag in the order S, N, B,
\* SS, NS, BS; every other field is left out, whatever the other fields are.
C9_LenientDecoding ==
    (op = "GetItem" /\ pc = "done" /\ Got200 /\ lastResp.body.valid
        /\ lastResp.body.Item.k = "object") =>
        /\ result.err = NoErr
        /\ result.val.k = "item"
        /\ \A f \in FieldNames :
              LET w == lastResp.body.Item.m[f]
                  a == result.val.m[f]
              IN  /\ a # Absent <=> Decodable(w)
                  /\ Decodable(w) =>
                        LET i == FirstCorrect(w.m) IN
                        /\ a.Type = KnownTags[i]
                        /\ a.Name = f
                        /\ i <= 3 => a.Value = w.m[KnownTags[i]].s
                        /\ i > 3 => Len(a.SetValues) = Len(w.m[KnownTags[i]].l)

\* C9 witness: field f carries the unknown tag BOOL, field g is well formed;
\* the result holds g alone
C9_Witness ==
    /\ op = "GetItem"
    /\ pc = "done"
    /\ Got200
    /\ lastResp.body.valid
    /\ lastResp.body.Item = JObj([f |-> JObj(Only("BOOL", JStr(<<"a">>))),
                                  g |-> JObj(Only(TYPE_STRING, JStr(<<"a">>)))])
    /\ result.err = NoErr
    /\ result.val.m["f"] = Absent
    /\ result.val.m["g"].Type = TYPE_STRING

\* C10: a Send whose throttling tier is on (retryCount >= 0) never returns an
\* Error with the throttling code, so putItem's loop neither sees that code
\* nor spends a retry on it; a PutItem makes at most 5 Sends, each with any
\* number of resends, and only a Send whose tier is on makes more transport
\* calls than one.
C10_TierInteraction ==
    /\ (SendReturned /\ retryCount >= 0) =>
          sendErr.Code # ProvisionedThroughputExceeded
    /\ (InPut /\ pc = "backoff") => sendErr.Code # ProvisionedThroughputExceeded
    /\ InPut => attempts <= 5
    /\ transportCalls >= attempts
    /\ transportCalls <= attempts * (MaxThrottle + 1)
    /\ sendCalls > 1 => retryCount >= 1
    /\ retryCount < 0 => transportCalls = attempts

\* C10 witness: a PutItem with more than 5 transport calls
C10_Witness ==
    InPut /\ attempts <= 5 /\ transportCalls > 5

====
